---- MODULE Spec2Model ----
(***************************************************************************)
(* Authentication and credential lifecycle of the user-account backend:    *)
(* the user store, bearer and reset tokens, the authorization gate of      *)
(* app/api/deps.py and the request handlers of app/api/routes.             *)
(* One action is one HTTP request, run in its own store session.           *)
(***************************************************************************)
EXTENDS Integers, Sequences, FiniteSets, TLC

(* ------------------------------ bounds --------------------------------- *)
MaxUsers == 1       \* principals ever created besides the first superuser
MaxClock == 3       \* last tick of the clock
MaxTokens == 1      \* tokens the server signs in one behaviour

(* --------------------------- configuration ----------------------------- *)
AccessTTL == 1      \* settings.ACCESS_TOKEN_EXPIRE_MINUTES, in ticks
ResetTTL == 2       \* settings.EMAIL_RESET_TOKEN_EXPIRE_HOURS, in ticks
FIRST_SUPERUSER == "admin@x"
FIRST_SUPERUSER_PASSWORD == "pw1"

(* ------------------------------ values --------------------------------- *)
IdOrder == <<"u0", "u1", "u2", "u3", "u4">>   \* uuid4() results, in order of creation
Ids == {IdOrder[i] : i \in 1..(MaxUsers + 1)}
NoUser == "none"                        \* Python None where a User is expected
Emails == {"admin@x", "a@x"}
NoEmail == "none"
NoName == "none"                        \* Python None where a full name is expected
ValidPasswords == {"pw1", "pw2"}        \* pass Field(min_length=8)
NewPasswords == {"pw2"}                  \* the one that requests set
LoginPasswords == ValidPasswords \cup {""}   \* the login form validates nothing
FullNames == {"n"}                      \* a full name a request sets

\* subject claim of a token, as the string the JWT carries
StrOfUUID(id) == [tag |-> "uuid", v |-> id]
StrOfText(s) == [tag |-> "text", v |-> s]
NoSub == [tag |-> "absent", v |-> ""]

\* password hash (app.core.security): a one-way digest tagged with its algorithm
get_password_hash(plain) == [alg |-> "bcrypt", digest |-> plain]

verify_password(plain, hashed) == hashed.alg = "bcrypt" /\ hashed.digest = plain

VARIABLES
    users,          \* the users table as committed: id -> row
    session,        \* the table as the request's session sees it after its flushes
    nextId,         \* index in IdOrder of the next uuid4()
    now,            \* the clock
    signed,         \* tokens the server has signed and handed out
    resetKeyShared, \* build choice: reset tokens verify under SECRET_KEY with ALGORITHM
    used,           \* history: reset tokens that have already set a password
    stale,          \* history: bearer tokens signed before their principal's password changed
    txs,            \* concurrent requests, each in a session of its own: worker -> request
    req,            \* the request in flight: the inputs it has read
    resp,           \* its response
    trace           \* the checks it evaluated, in order

vars == <<users, session, nextId, now, signed, resetKeyShared, used, stale, txs, req, resp, trace>>

(* ------------------------------ tokens --------------------------------- *)
NoToken == [form |-> "none", signer |-> "none", ctx |-> "none", sub |-> NoSub, exp |-> 0]

\* create_access_token(subject, expires_delta): {sub: str(subject), exp: now + ttl}
create_access_token(subject, expires_delta, t) ==
    [form |-> "jwt", signer |-> "server", ctx |-> "access",
     sub |-> StrOfUUID(subject), exp |-> t + expires_delta]

\* generate_password_reset_token(email): {purpose: reset, sub: email, exp: now + reset ttl}
generate_password_reset_token(email, t) ==
    [form |-> "jwt", signer |-> "server", ctx |-> "reset",
     sub |-> StrOfText(email), exp |-> t + ResetTTL]

\* tokens anyone can write down without the server's help, and the tokens
\* with no subject, a non-UUID subject or an unknown id that a holder of the
\* secret can sign
GarbageToken == [form |-> "garbage", signer |-> "none", ctx |-> "none", sub |-> NoSub, exp |-> 0]
ForgedTokens ==
    {[form |-> "jwt", signer |-> "other", ctx |-> "access", sub |-> StrOfUUID(IdOrder[1]),
      exp |-> MaxClock + 1]}
OddTokens ==
    {[form |-> "jwt", signer |-> "server", ctx |-> "access", sub |-> s, exp |-> MaxClock + 1] :
        s \in {NoSub, StrOfText("junk"), StrOfUUID("u-unknown")}}
CraftedTokens == {GarbageToken} \cup ForgedTokens \cup OddTokens

Presentable == signed \cup CraftedTokens

\* every gated route runs the same gate: test_token is sent every crafted
\* token, the other routes the signed tokens and the malformed one
Presented == signed \cup {GarbageToken}

\* jwt.decode(token, settings.SECRET_KEY, algorithms=[ALGORITHM]):
\* InvalidTokenError on a malformed token, a bad signature, or exp <= now
jwt_decode_ignore_exp(token, t) ==
    IF /\ token.form = "jwt"
       /\ token.signer = "server"
       /\ (token.ctx = "access" \/ resetKeyShared)
    THEN [ok |-> TRUE, sub |-> token.sub]
    ELSE [ok |-> FALSE, sub |-> NoSub]

jwt_decode(token, t) ==
    IF /\ token.form = "jwt"
       /\ token.signer = "server"
       /\ (token.ctx = "access" \/ resetKeyShared)
       /\ t < token.exp
    THEN [ok |-> TRUE, sub |-> token.sub]
    ELSE [ok |-> FALSE, sub |-> NoSub]

\* TokenPayload(**payload): sub: uuid.UUID | None = None; ValidationError otherwise
TokenPayload_str(sub) ==
    IF sub.tag = "absent" THEN [ok |-> TRUE, sub |-> NoUser]
    ELSE [ok |-> TRUE, sub |-> sub.v]

TokenPayload(sub) ==
    IF sub.tag = "absent" THEN [ok |-> TRUE, sub |-> NoUser]
    ELSE IF sub.tag = "uuid" THEN [ok |-> TRUE, sub |-> sub.v]
    ELSE [ok |-> FALSE, sub |-> NoUser]

\* verify_password_reset_token(token): the email, or None when the signature is
\* invalid, the purpose is not reset, or the token has expired
verify_password_reset_token(token, t) ==
    IF /\ token.form = "jwt"
       /\ token.signer = "server"
       /\ token.ctx = "reset"
       /\ t < token.exp
       /\ token.sub.tag = "text"
    THEN token.sub.v
    ELSE NoEmail

(* ---------------------------- user store ------------------------------- *)
User(email, full_name, hashed_password, is_active, is_superuser) ==
    [email |-> email, full_name |-> full_name, hashed_password |-> hashed_password,
     is_active |-> is_active, is_superuser |-> is_superuser]

\* session.get(User, user_id)
get_user_by_id(us, user_id) ==
    IF user_id \in DOMAIN us THEN user_id ELSE NoUser

\* select(User).where(User.email == email) ... scalar_one_or_none()
get_user_by_email(us, email) ==
    LET hits == {id \in DOMAIN us : us[id].email = email}
    IN IF hits = {} THEN NoUser ELSE CHOOSE id \in hits : TRUE

\* email and full_name are declared nullable=False: a flush that would store
\* NULL in one of them raises IntegrityError
NotNull(us) ==
    \A id \in DOMAIN us : us[id].email # NoEmail /\ us[id].full_name # NoName

\* a users table without the unique index on email
EmailUnique_unchecked(us) ==
    TRUE

\* users.email is declared unique: a flush that would store one email twice
\* raises IntegrityError
EmailUnique(us) ==
    \A i, j \in DOMAIN us : us[i].email = us[j].email => i = j

\* authenticate(session, email, password)
authenticate_no_verify(us, email, password) ==
    get_user_by_email(us, email)

authenticate(us, email, password) ==
    LET db_user == get_user_by_email(us, email)
    IN IF db_user = NoUser THEN NoUser
       ELSE IF ~verify_password(password, us[db_user].hashed_password) THEN NoUser
       ELSE db_user

(* ------------------------- authorization gate -------------------------- *)
Outcome(status, detail, user, checks) ==
    [status |-> status, detail |-> detail, user |-> user, checks |-> checks]

\* get_current_user, after the token has decoded to a subject: the store lookup
resolve_subject_403(us, sub) ==
    LET user == get_user_by_id(us, sub)
    IN IF user = NoUser
       THEN Outcome(403, "Could not validate credentials", NoUser, <<"token", "lookup">>)
       ELSE Outcome(200, "", user, <<"token", "lookup">>)

resolve_subject(us, sub) ==
    LET user == get_user_by_id(us, sub)
    IN IF user = NoUser
       THEN Outcome(404, "User not found", NoUser, <<"token", "lookup">>)
       ELSE Outcome(200, "", user, <<"token", "lookup">>)

\* a gate that refuses the tokens signed before a password change
get_current_user_revoking(us, token, t) ==
    LET payload == jwt_decode(token, t)
        token_data == TokenPayload(payload.sub)
    IN IF ~payload.ok \/ ~token_data.ok \/ token \in stale
       THEN Outcome(403, "Could not validate credentials", NoUser, <<"token">>)
       ELSE IF token_data.sub = NoUser
       THEN Outcome(403, "Could not validate credentials", NoUser, <<"token">>)
       ELSE resolve_subject(us, token_data.sub)

get_current_user(us, token, t) ==
    LET payload == jwt_decode(token, t)
        token_data == TokenPayload(payload.sub)
    IN IF ~payload.ok \/ ~token_data.ok
       THEN Outcome(403, "Could not validate credentials", NoUser, <<"token">>)
       ELSE IF token_data.sub = NoUser
       THEN Outcome(403, "Could not validate credentials", NoUser, <<"token">>)
       ELSE resolve_subject(us, token_data.sub)

get_current_active_user(us, token, t) ==
    LET r == get_current_user(us, token, t)
    IN IF r.status # 200 THEN r
       ELSE IF us[r.user].is_active = FALSE
       THEN Outcome(400, "Inactive user", NoUser, Append(r.checks, "active"))
       ELSE Outcome(200, "", r.user, Append(r.checks, "active"))

get_current_active_superuser_any(us, token, t) ==
    LET r == get_current_active_user(us, token, t)
    IN IF r.status # 200 THEN r
       ELSE Outcome(200, "", r.user, Append(r.checks, "superuser"))

get_current_active_superuser_first(us, token, t) ==
    LET r == get_current_user(us, token, t)
    IN IF r.status # 200 THEN r
       ELSE IF ~us[r.user].is_superuser
       THEN Outcome(403, "The user doesn't have enough privileges", NoUser,
                    Append(r.checks, "superuser"))
       ELSE IF us[r.user].is_active = FALSE
       THEN Outcome(400, "Inactive user", NoUser, r.checks \o <<"superuser", "active">>)
       ELSE Outcome(200, "", r.user, r.checks \o <<"superuser", "active">>)

get_current_active_superuser(us, token, t) ==
    LET r == get_current_active_user(us, token, t)
    IN IF r.status # 200 THEN r
       ELSE IF ~us[r.user].is_superuser
       THEN Outcome(403, "The user doesn't have enough privileges", NoUser,
                    Append(r.checks, "superuser"))
       ELSE Outcome(200, "", r.user, Append(r.checks, "superuser"))

(* --------------------------- requests ---------------------------------- *)
EmptyPatch == [f \in {} |-> TRUE]

Request(op, token, email, password, target, patch) ==
    [op |-> op, token |-> token, email |-> email, password |-> password,
     target |-> target, patch |-> patch]

\* status and detail (or message) of the response, the principal in its body,
\* the token it carries, and for login the principal authenticate returned
Reply(status, detail, user, token, auth) ==
    [status |-> status, detail |-> detail, user |-> user, token |-> token, auth |-> auth]

GateReply(r) == Reply(r.status, r.detail, NoUser, NoToken, NoUser)

NoRequest == Request("none", NoToken, NoEmail, "", NoUser, EmptyPatch)
NoReply == Reply(0, "", NoUser, NoToken, NoUser)

Idle == req.op = "none"

CanSign(token) == token \in signed \/ Cardinality(signed) < MaxTokens

\* the requests that run side by side, and what each has done so far: the
\* handler and its inputs, the principal the gate resolved, the row it wrote,
\* its response, and the step that raised
Workers == {"w1", "w2"}

Tx(op, pc, user, email, id, status, detail, at) ==
    [op |-> op, pc |-> pc, user |-> user, email |-> email, id |-> id,
     status |-> status, detail |-> detail, at |-> at]

NoTx == Tx("none", "idle", NoUser, NoEmail, NoUser, 0, "", "none")
NoTxs == [w \in Workers |-> NoTx]

(* ------------------------- user service -------------------------------- *)
\* an id generator that hands out the first id no stored row has
uuid4_reused ==
    IdOrder[CHOOSE i \in 1..Len(IdOrder) :
                /\ IdOrder[i] \notin DOMAIN users
                /\ \A j \in 1..(i - 1) : IdOrder[j] \in DOMAIN users]

\* Base.id default=uuid.uuid4: an id no row has had before
uuid4 ==
    IdOrder[nextId]

\* create_user(session, user_in): the row it adds under a fresh uuid4 id
create_user(us, id, email, full_name, password, is_active, is_superuser) ==
    [i \in DOMAIN us \cup {id} |->
        IF i = id
        THEN User(email, full_name, get_password_hash(password), is_active, is_superuser)
        ELSE us[i]]

\* update_user that dumps the whole body, unset fields at their defaults
update_user_all_fields(us, id, patch) ==
    LET old == us[id]
        F == DOMAIN patch
        new == User(IF "email" \in F THEN patch.email ELSE old.email,
                    IF "full_name" \in F THEN patch.full_name ELSE "",
                    IF "password" \in F THEN get_password_hash(patch.password)
                                        ELSE old.hashed_password,
                    IF "is_active" \in F THEN patch.is_active ELSE TRUE,
                    IF "is_superuser" \in F THEN patch.is_superuser ELSE FALSE)
    IN [us EXCEPT ![id] = new]

\* update_user(session, user, user_in): model_dump(exclude_unset=True), hash the
\* password, setattr every key present
update_user(us, id, patch) ==
    LET old == us[id]
        F == DOMAIN patch
        new == User(IF "email" \in F THEN patch.email ELSE old.email,
                    IF "full_name" \in F THEN patch.full_name ELSE old.full_name,
                    IF "password" \in F THEN get_password_hash(patch.password)
                                        ELSE old.hashed_password,
                    IF "is_active" \in F THEN patch.is_active ELSE old.is_active,
                    IF "is_superuser" \in F THEN patch.is_superuser ELSE old.is_superuser)
    IN [us EXCEPT ![id] = new]

\* set_user_password(session, user, new_password)
set_user_password(us, id, new_password) ==
    [us EXCEPT ![id].hashed_password = get_password_hash(new_password)]

\* delete_user(session, user)
delete_user(us, id) == [i \in DOMAIN us \ {id} |-> us[i]]

(* ------------------------------ login ---------------------------------- *)
\* login_access_token: the response for a submitted form
login_reply_404(us, email, password, t) ==
    LET user == authenticate(us, email, password)
    IN IF user = NoUser
       THEN IF get_user_by_email(us, email) = NoUser
            THEN Reply(404, "User not found", NoUser, NoToken, user)
            ELSE Reply(401, "Incorrect username or password", NoUser, NoToken, user)
       ELSE IF ~us[user].is_active
       THEN Reply(400, "Inactive user", NoUser, NoToken, user)
       ELSE Reply(200, "", NoUser, create_access_token(user, AccessTTL, t), user)

\* login_access_token without the is_active test
login_reply_any_status(us, email, password, t) ==
    LET user == authenticate(us, email, password)
    IN IF user = NoUser
       THEN Reply(401, "Incorrect username or password", NoUser, NoToken, user)
       ELSE Reply(200, "", NoUser, create_access_token(user, AccessTTL, t), user)

login_reply(us, email, password, t) ==
    LET user == authenticate(us, email, password)
    IN IF user = NoUser
       THEN Reply(401, "Incorrect username or password", NoUser, NoToken, user)
       ELSE IF ~us[user].is_active
       THEN Reply(400, "Inactive user", NoUser, NoToken, user)
       ELSE Reply(200, "", NoUser, create_access_token(user, AccessTTL, t), user)

login_access_token ==
    /\ Idle
    /\ \E email \in Emails, password \in LoginPasswords :
        LET r == login_reply(users, email, password, now)
        IN /\ r.status = 200 => CanSign(r.token)
           /\ req' = Request("login_access_token", NoToken, email, password, NoUser, EmptyPatch)
           /\ resp' = r
           /\ trace' = <<"body">>
           /\ signed' = IF r.status = 200 THEN signed \cup {r.token} ELSE signed
           /\ UNCHANGED <<users, session, nextId, now, resetKeyShared, used, stale, txs>>

\* test_token: depends on get_current_user only
test_token ==
    /\ Idle
    /\ \E token \in Presentable :
        LET g == get_current_user(users, token, now)
        IN /\ req' = Request("test_token", token, NoEmail, "", NoUser, EmptyPatch)
           /\ resp' = IF g.status = 200 THEN Reply(200, "", g.user, NoToken, NoUser)
                      ELSE GateReply(g)
           /\ trace' = IF g.status = 200 THEN Append(g.checks, "body") ELSE g.checks
           /\ UNCHANGED <<users, session, nextId, now, signed, resetKeyShared, used, stale, txs>>

\* read_user_me: depends on get_current_active_user
read_user_me ==
    /\ Idle
    /\ \E token \in Presented :
        LET g == get_current_active_user(users, token, now)
        IN /\ req' = Request("read_user_me", token, NoEmail, "", NoUser, EmptyPatch)
           /\ resp' = IF g.status = 200 THEN Reply(200, "", g.user, NoToken, NoUser)
                      ELSE GateReply(g)
           /\ trace' = IF g.status = 200 THEN Append(g.checks, "body") ELSE g.checks
           /\ UNCHANGED <<users, session, nextId, now, signed, resetKeyShared, used, stale, txs>>

\* register_user (signup): no credentials
register_user ==
    /\ Idle
    /\ \E email \in Emails, password \in NewPasswords :
        LET dup == get_user_by_email(users, email) # NoUser
            id == uuid4
        IN /\ ~dup => nextId <= MaxUsers + 1
           /\ req' = Request("register_user", NoToken, email, password, NoUser, EmptyPatch)
           /\ trace' = <<"body">>
           /\ IF dup
              THEN /\ resp' = Reply(400, "The user with this email already exists in the system",
                                    NoUser, NoToken, NoUser)
                   /\ UNCHANGED <<session, nextId>>
              ELSE /\ session' = create_user(users, id, email, "", password, TRUE, FALSE)
                   /\ nextId' = nextId + 1
                   /\ resp' = Reply(200, "", id, NoToken, NoUser)
           /\ UNCHANGED <<users, now, signed, resetKeyShared, used, stale, txs>>

\* private create_user: no credentials and no lookup by email before the insert
private_create_user ==
    /\ Idle
    /\ \E email \in Emails, password \in NewPasswords, full_name \in FullNames :
        LET id == uuid4
            added == create_user(users, id, email, full_name, password, TRUE, FALSE)
        IN /\ nextId <= MaxUsers + 1
           /\ req' = Request("private_create_user", NoToken, email, password, NoUser,
                             [full_name |-> full_name])
           /\ trace' = <<"body">>
           /\ IF EmailUnique(added)
              THEN /\ session' = added
                   /\ nextId' = nextId + 1
                   /\ resp' = Reply(200, "", id, NoToken, NoUser)
              ELSE /\ resp' = Reply(500, "Internal Server Error", NoUser, NoToken, NoUser)
                   /\ UNCHANGED <<session, nextId>>
           /\ UNCHANGED <<users, now, signed, resetKeyShared, used, stale, txs>>

(* ----------------------- routes behind the gate ------------------------- *)
\* UserUpdate bodies: every field is optional, so one flag or both
Patches ==
    {[is_active |-> b] : b \in BOOLEAN} \cup {[is_superuser |-> b] : b \in BOOLEAN}
        \cup {[is_active |-> FALSE, is_superuser |-> FALSE]}

\* UserUpdate bodies that name the email or the full name
ProfilePatches ==
    {[email |-> e] : e \in Emails} \cup {[full_name |-> n] : n \in FullNames}

\* UserUpdate bodies that name the password
PasswordPatches == {[password |-> p] : p \in NewPasswords}

\* UserUpdateMe bodies with an explicit null: both fields are typed "| None"
NullPatches == {[email |-> NoEmail], [full_name |-> NoName]}

\* UserUpdateMe bodies if the schema had the is_superuser field
MePatches_with_flag ==
    {[email |-> e] : e \in Emails} \cup {[full_name |-> n] : n \in FullNames}
        \cup {[is_superuser |-> TRUE]}

\* UserUpdateMe bodies
MePatches ==
    {[email |-> e] : e \in Emails} \cup {[full_name |-> n] : n \in FullNames}

\* the gate refused the request: the body and its inputs are never read
Refused(op, token, g) ==
    /\ g.status # 200
    /\ req' = Request(op, token, NoEmail, "", NoUser, EmptyPatch)
    /\ resp' = GateReply(g)
    /\ trace' = g.checks
    /\ UNCHANGED <<users, session, nextId, now, signed, resetKeyShared, used, stale, txs>>

\* the gate refused a request whose path names a principal
RefusedAt(op, token, user_id, g) ==
    /\ g.status # 200
    /\ req' = Request(op, token, NoEmail, "", user_id, EmptyPatch)
    /\ resp' = GateReply(g)
    /\ trace' = g.checks
    /\ UNCHANGED <<users, session, nextId, now, signed, resetKeyShared, used, stale, txs>>

\* the gate passed: the body ran on these inputs and answered
Answer(op, token, email, password, target, patch, g, body) ==
    /\ g.status = 200
    /\ req' = Request(op, token, email, password, target, patch)
    /\ resp' = body
    /\ trace' = Append(g.checks, "body")

\* update_user_me: the email of the body belongs to somebody else
update_user_me_conflict_any(us, current_user, user_in) ==
    /\ "email" \in DOMAIN user_in
    /\ get_user_by_email(us, user_in.email) # NoUser

update_user_me_conflict(us, current_user, user_in) ==
    /\ "email" \in DOMAIN user_in
    /\ user_in.email # us[current_user].email
    /\ get_user_by_email(us, user_in.email) # NoUser

\* update_user_me, its body drawn from bodies: depends on get_current_active_user;
\* the flush of update_user raises IntegrityError when a column is null
update_user_me_with(bodies) ==
    /\ Idle
    /\ \E token \in Presented :
        LET g == get_current_active_user(users, token, now)
        IN \/ Refused("update_user_me", token, g)
           \/ \E user_in \in bodies :
                LET taken == update_user_me_conflict(users, g.user, user_in)
                    updated == update_user(users, g.user, user_in)
                    flushed == ~taken /\ NotNull(updated)
                IN /\ Answer("update_user_me", token, NoEmail, "", NoUser, user_in, g,
                             IF taken
                             THEN Reply(409, "User with this email already exists",
                                        NoUser, NoToken, NoUser)
                             ELSE IF ~NotNull(updated)
                             THEN Reply(500, "Internal Server Error", NoUser, NoToken, NoUser)
                             ELSE Reply(200, "", g.user, NoToken, NoUser))
                   /\ session' = IF flushed THEN updated ELSE users
                   /\ UNCHANGED <<users, nextId, now, signed, resetKeyShared, used, stale, txs>>

update_user_me == update_user_me_with(MePatches)

\* update_user_me with a body that names a field with an explicit null
update_user_me_null == update_user_me_with(NullPatches)

\* update_password_me: the body, for the principal the gate resolved
update_password_me_reply_unverified(us, current_user, current_password, new_password) ==
    IF current_password = new_password
    THEN Reply(400, "New password cannot be the same as the current one",
               NoUser, NoToken, NoUser)
    ELSE Reply(200, "Password updated successfully", NoUser, NoToken, NoUser)

update_password_me_reply(us, current_user, current_password, new_password) ==
    IF ~verify_password(current_password, us[current_user].hashed_password)
    THEN Reply(400, "Incorrect password", NoUser, NoToken, NoUser)
    ELSE IF current_password = new_password
    THEN Reply(400, "New password cannot be the same as the current one",
               NoUser, NoToken, NoUser)
    ELSE Reply(200, "Password updated successfully", NoUser, NoToken, NoUser)

\* update_password_me: depends on get_current_active_user
update_password_me ==
    /\ Idle
    /\ \E token \in Presented :
        LET g == get_current_active_user(users, token, now)
        IN \/ Refused("update_password_me", token, g)
           \/ \E current_password \in ValidPasswords, new_password \in ValidPasswords :
                LET r == update_password_me_reply(users, g.user, current_password,
                                                  new_password)
                IN /\ Answer("update_password_me", token, NoEmail, "", NoUser,
                             [current_password |-> current_password,
                              new_password |-> new_password], g, r)
                   /\ session' = IF r.status = 200
                                 THEN set_user_password(users, g.user, new_password)
                                 ELSE users
                   /\ UNCHANGED <<users, nextId, now, signed, resetKeyShared, used, stale, txs>>

\* read_user_by_id: the body, for the principal the gate resolved
read_user_by_id_reply_lookup_first(us, current_user, user_id) ==
    IF current_user = user_id THEN Reply(200, "", current_user, NoToken, NoUser)
    ELSE IF get_user_by_id(us, user_id) = NoUser
    THEN Reply(404, "User not found", NoUser, NoToken, NoUser)
    ELSE IF ~us[current_user].is_superuser
    THEN Reply(403, "The user doesn't have enough privileges", NoUser, NoToken, NoUser)
    ELSE Reply(200, "", user_id, NoToken, NoUser)

read_user_by_id_reply(us, current_user, user_id) ==
    IF current_user = user_id THEN Reply(200, "", current_user, NoToken, NoUser)
    ELSE IF ~us[current_user].is_superuser
    THEN Reply(403, "The user doesn't have enough privileges", NoUser, NoToken, NoUser)
    ELSE IF get_user_by_id(us, user_id) = NoUser
    THEN Reply(404, "User not found", NoUser, NoToken, NoUser)
    ELSE Reply(200, "", user_id, NoToken, NoUser)

\* read_user_by_id: depends on get_current_active_user
read_user_by_id ==
    /\ Idle
    /\ \E token \in Presented :
        LET g == get_current_active_user(users, token, now)
        IN \/ Refused("read_user_by_id", token, g)
           \/ \E user_id \in Ids :
                /\ Answer("read_user_by_id", token, NoEmail, "", user_id, EmptyPatch, g,
                          read_user_by_id_reply(users, g.user, user_id))
                /\ UNCHANGED <<users, session, nextId, now, signed, resetKeyShared, used, stale, txs>>

\* delete_user_me without the superuser rule
delete_user_me_any ==
    /\ Idle
    /\ \E token \in Presented :
        LET g == get_current_active_user(users, token, now)
        IN \/ Refused("delete_user_me", token, g)
           \/ /\ Answer("delete_user_me", token, NoEmail, "", NoUser, EmptyPatch, g,
                        Reply(200, "User deleted successfully", NoUser, NoToken, NoUser))
              /\ session' = delete_user(users, g.user)
              /\ UNCHANGED <<users, nextId, now, signed, resetKeyShared, used, stale, txs>>

\* delete_user_me: depends on get_current_active_user
delete_user_me ==
    /\ Idle
    /\ \E token \in Presented :
        LET g == get_current_active_user(users, token, now)
        IN \/ Refused("delete_user_me", token, g)
           \/ /\ Answer("delete_user_me", token, NoEmail, "", NoUser, EmptyPatch, g,
                        IF users[g.user].is_superuser
                        THEN Reply(403, "Super users are not allowed to delete themselves",
                                   NoUser, NoToken, NoUser)
                        ELSE Reply(200, "User deleted successfully", NoUser, NoToken, NoUser))
              /\ session' = IF users[g.user].is_superuser THEN users
                            ELSE delete_user(users, g.user)
              /\ UNCHANGED <<users, nextId, now, signed, resetKeyShared, used, stale, txs>>

\* read_users
read_users ==
    /\ Idle
    /\ \E token \in Presented :
        LET g == get_current_active_superuser(users, token, now)
        IN \/ Refused("read_users", token, g)
           \/ /\ Answer("read_users", token, NoEmail, "", NoUser, EmptyPatch, g,
                        Reply(200, "", NoUser, NoToken, NoUser))
              /\ UNCHANGED <<users, session, nextId, now, signed, resetKeyShared, used, stale, txs>>

\* create_user_route
create_user_route ==
    /\ Idle
    /\ \E token \in Presented :
        LET g == get_current_active_superuser(users, token, now)
        IN \/ Refused("create_user_route", token, g)
           \/ \E email \in Emails, password \in NewPasswords,
                 is_active \in BOOLEAN, is_superuser \in BOOLEAN :
                LET dup == get_user_by_email(users, email) # NoUser
                    id == uuid4
                IN /\ ~dup => nextId <= MaxUsers + 1
                   /\ Answer("create_user_route", token, email, password, NoUser,
                             [is_active |-> is_active, is_superuser |-> is_superuser], g,
                             IF dup
                             THEN Reply(400, "Email already registered", NoUser, NoToken, NoUser)
                             ELSE Reply(200, "", id, NoToken, NoUser))
                   /\ session' = IF dup THEN users
                                 ELSE create_user(users, id, email, "", password,
                                                  is_active, is_superuser)
                   /\ nextId' = IF dup THEN nextId ELSE nextId + 1
                   /\ UNCHANGED <<users, now, signed, resetKeyShared, used, stale, txs>>

\* update_user_route, its body drawn from bodies
update_user_route_with(bodies) ==
    /\ Idle
    /\ \E token \in Presented :
        LET g == get_current_active_superuser(users, token, now)
        IN \/ \E user_id \in Ids : RefusedAt("update_user_route", token, user_id, g)
           \/ \E user_id \in Ids, user_in \in bodies :
                LET user == get_user_by_id(users, user_id)
                    taken == /\ "email" \in DOMAIN user_in
                             /\ user_in.email # users[user].email
                             /\ get_user_by_email(users, user_in.email) # NoUser
                IN /\ Answer("update_user_route", token, NoEmail, "", user_id, user_in, g,
                             IF user = NoUser
                             THEN Reply(404, "The user with this id does not exist in the system",
                                        NoUser, NoToken, NoUser)
                             ELSE IF taken
                             THEN Reply(409, "User with this email already exists",
                                        NoUser, NoToken, NoUser)
                             ELSE Reply(200, "", user, NoToken, NoUser))
                   /\ session' = IF user # NoUser /\ ~taken
                                 THEN update_user(users, user, user_in)
                                 ELSE users
                   /\ UNCHANGED <<users, nextId, now, signed, resetKeyShared, used, stale, txs>>

update_user_route == update_user_route_with(Patches)

\* delete_user_route
delete_user_route ==
    /\ Idle
    /\ \E token \in Presented :
        LET g == get_current_active_superuser(users, token, now)
        IN \/ \E user_id \in Ids : RefusedAt("delete_user_route", token, user_id, g)
           \/ \E user_id \in Ids :
                LET user == get_user_by_id(users, user_id)
                IN /\ Answer("delete_user_route", token, NoEmail, "", user_id, EmptyPatch, g,
                             IF user_id = g.user
                             THEN Reply(403, "Super users are not allowed to delete themselves",
                                        NoUser, NoToken, NoUser)
                             ELSE IF user = NoUser
                             THEN Reply(404, "User not found", NoUser, NoToken, NoUser)
                             ELSE Reply(200, "User deleted successfully",
                                        NoUser, NoToken, NoUser))
                   /\ session' = IF user_id # g.user /\ user # NoUser
                                 THEN delete_user(users, user)
                                 ELSE users
                   /\ UNCHANGED <<users, nextId, now, signed, resetKeyShared, used, stale, txs>>

\* recover_password_html_content: the page carries a fresh reset token
recover_password_html_content ==
    /\ Idle
    /\ \E token \in Presented :
        LET g == get_current_active_superuser(users, token, now)
        IN \/ Refused("recover_password_html_content", token, g)
           \/ \E email \in Emails :
                LET user == get_user_by_email(users, email)
                    password_reset_token == generate_password_reset_token(email, now)
                IN /\ user # NoUser => CanSign(password_reset_token)
                   /\ Answer("recover_password_html_content", token, email, "", NoUser,
                             EmptyPatch, g,
                             IF user = NoUser
                             THEN Reply(404,
                                        "The user with this email does not exist in the system.",
                                        NoUser, NoToken, NoUser)
                             ELSE Reply(200, "", NoUser, password_reset_token, NoUser))
                   /\ signed' = IF user # NoUser THEN signed \cup {password_reset_token}
                                ELSE signed
                   /\ UNCHANGED <<users, session, nextId, now, resetKeyShared, used, stale, txs>>

(* -------------------------- password reset ----------------------------- *)
\* recover_password that tells the caller when nobody has the email
recover_password_404 ==
    /\ Idle
    /\ \E email \in Emails :
        LET user == get_user_by_email(users, email)
            password_reset_token == generate_password_reset_token(email, now)
        IN /\ user # NoUser => CanSign(password_reset_token)
           /\ req' = Request("recover_password", NoToken, email, "", NoUser, EmptyPatch)
           /\ resp' = IF user # NoUser
                      THEN Reply(200, "Password recovery email sent", NoUser, NoToken, NoUser)
                      ELSE Reply(404, "The user with this email does not exist in the system.",
                                 NoUser, NoToken, NoUser)
           /\ trace' = IF user # NoUser THEN <<"body", "mail">> ELSE <<"body">>
           /\ signed' = IF user # NoUser THEN signed \cup {password_reset_token} ELSE signed
           /\ UNCHANGED <<users, session, nextId, now, resetKeyShared, used, stale, txs>>

\* recover_password: the token leaves in the mail to the account's address
\* (send_email is the "mail" step of the trace)
recover_password ==
    /\ Idle
    /\ \E email \in Emails :
        LET user == get_user_by_email(users, email)
            password_reset_token == generate_password_reset_token(email, now)
        IN /\ user # NoUser => CanSign(password_reset_token)
           /\ req' = Request("recover_password", NoToken, email, "", NoUser, EmptyPatch)
           /\ resp' = Reply(200, "Password recovery email sent", NoUser, NoToken, NoUser)
           /\ trace' = IF user # NoUser THEN <<"body", "mail">> ELSE <<"body">>
           /\ signed' = IF user # NoUser THEN signed \cup {password_reset_token} ELSE signed
           /\ UNCHANGED <<users, session, nextId, now, resetKeyShared, used, stale, txs>>

\* reset_password: the response, and the principal whose password is set
reset_password_reply_404(us, token, t) ==
    LET email == verify_password_reset_token(token, t)
        user == get_user_by_email(us, email)
    IN IF email = NoEmail \/ user = NoUser
       THEN Reply(404, "The user with this email does not exist in the system.",
                  NoUser, NoToken, NoUser)
       ELSE IF ~us[user].is_active
       THEN Reply(400, "Inactive user", NoUser, NoToken, NoUser)
       ELSE Reply(200, "Password updated successfully", user, NoToken, NoUser)

\* reset_password without the is_active test
reset_password_reply_any_status(us, token, t) ==
    LET email == verify_password_reset_token(token, t)
        user == get_user_by_email(us, email)
    IN IF email = NoEmail
       THEN Reply(400, "Invalid token", NoUser, NoToken, NoUser)
       ELSE IF user = NoUser
       THEN Reply(404, "The user with this email does not exist in the system.",
                  NoUser, NoToken, NoUser)
       ELSE Reply(200, "Password updated successfully", user, NoToken, NoUser)

\* a server that keeps consumed tokens and refuses them
reset_password_reply_once(us, token, t) ==
    LET email == verify_password_reset_token(token, t)
        user == get_user_by_email(us, email)
    IN IF email = NoEmail \/ token \in used
       THEN Reply(400, "Invalid token", NoUser, NoToken, NoUser)
       ELSE IF user = NoUser
       THEN Reply(404, "The user with this email does not exist in the system.",
                  NoUser, NoToken, NoUser)
       ELSE IF ~us[user].is_active
       THEN Reply(400, "Inactive user", NoUser, NoToken, NoUser)
       ELSE Reply(200, "Password updated successfully", user, NoToken, NoUser)

reset_password_reply(us, token, t) ==
    LET email == verify_password_reset_token(token, t)
        user == get_user_by_email(us, email)
    IN IF email = NoEmail
       THEN Reply(400, "Invalid token", NoUser, NoToken, NoUser)
       ELSE IF user = NoUser
       THEN Reply(404, "The user with this email does not exist in the system.",
                  NoUser, NoToken, NoUser)
       ELSE IF ~us[user].is_active
       THEN Reply(400, "Inactive user", NoUser, NoToken, NoUser)
       ELSE Reply(200, "Password updated successfully", user, NoToken, NoUser)

reset_password ==
    /\ Idle
    /\ \E token \in Presented :
        LET r == reset_password_reply(users, token, now)
        IN /\ resp' = r
           /\ trace' = <<"body">>
           /\ \/ /\ r.status # 200
                 /\ req' = Request("reset_password", token, NoEmail, "", NoUser, EmptyPatch)
                 /\ UNCHANGED session
              \/ /\ r.status = 200
                 /\ \E new_password \in NewPasswords :
                      /\ req' = Request("reset_password", token, NoEmail, new_password,
                                        NoUser, EmptyPatch)
                      /\ session' = set_user_password(users, r.user, new_password)
           /\ UNCHANGED <<users, nextId, now, signed, resetKeyShared, used, stale, txs>>

\* the clock advances
Tick ==
    /\ Idle
    /\ now < MaxClock
    /\ now' = now + 1
    /\ UNCHANGED <<users, session, nextId, signed, resetKeyShared, used, stale, txs, req, resp, trace>>

\* history: the principal whose password the request in flight has changed
PasswordChanged ==
    IF resp.status # 200 THEN NoUser
    ELSE IF req.op = "reset_password" THEN resp.user
    ELSE IF req.op = "update_password_me" THEN req.token.sub.v
    ELSE IF req.op = "update_user_route" /\ "password" \in DOMAIN req.patch THEN req.target
    ELSE NoUser

\* get_db that closes the session without a commit
get_db_no_commit ==
    /\ ~Idle
    /\ users' = users
    /\ session' = users'
    /\ req' = NoRequest
    /\ resp' = NoReply
    /\ trace' = <<>>
    /\ used' = IF req.op = "reset_password" /\ resp.status = 200
               THEN used \cup {req.token} ELSE used
    /\ stale' = stale \cup {tok \in signed : /\ tok.ctx = "access"
                                              /\ tok.sub = StrOfUUID(PasswordChanged)}
    /\ UNCHANGED <<nextId, now, signed, resetKeyShared, txs>>

\* get_db after its yield: commit when the request went through, rollback when
\* it raised; the response leaves and the session closes
get_db ==
    /\ ~Idle
    /\ users' = IF resp.status = 200 THEN session ELSE users
    /\ session' = users'
    /\ req' = NoRequest
    /\ resp' = NoReply
    /\ trace' = <<>>
    /\ used' = IF req.op = "reset_password" /\ resp.status = 200
               THEN used \cup {req.token} ELSE used
    /\ stale' = stale \cup {tok \in signed : /\ tok.ctx = "access"
                                              /\ tok.sub = StrOfUUID(PasswordChanged)}
    /\ UNCHANGED <<nextId, now, signed, resetKeyShared, txs>>

(* --------------------------- specification ----------------------------- *)
\* app/initial_data.py init_db: the first superuser exists before any request
InitialUsers ==
    [i \in {IdOrder[1]} |->
        User(FIRST_SUPERUSER, "", get_password_hash(FIRST_SUPERUSER_PASSWORD), TRUE, TRUE)]

Init ==
    /\ users = InitialUsers
    /\ session = InitialUsers
    /\ nextId = 2
    /\ now = 0
    /\ signed = {}
    /\ resetKeyShared \in BOOLEAN
    /\ used = {}
    /\ stale = {}
    /\ txs = NoTxs
    /\ req = NoRequest
    /\ resp = NoReply
    /\ trace = <<>>

Next ==
    \/ login_access_token
    \/ test_token
    \/ read_user_me
    \/ register_user
    \/ read_user_by_id
    \/ delete_user_me
    \/ read_users
    \/ create_user_route
    \/ update_user_route
    \/ delete_user_route
    \/ recover_password_html_content
    \/ recover_password
    \/ reset_password
    \/ get_db
    \/ Tick

Spec == Init /\ [][Next]_vars

\* update_user_route with a body that names the password
update_user_route_password == update_user_route_with(Patches \cup PasswordPatches)

\* account management: creation, profile updates and deletion, the clock held
update_user_route_profile == update_user_route_with(Patches \cup ProfilePatches)

NextAccounts ==
    \/ login_access_token
    \/ register_user
    \/ private_create_user
    \/ read_user_me
    \/ read_user_by_id
    \/ update_user_me
    \/ update_user_me_null
    \/ update_password_me
    \/ delete_user_me
    \/ read_users
    \/ create_user_route
    \/ update_user_route_profile
    \/ update_user_route_password
    \/ delete_user_route
    \/ get_db

SpecAccounts == Init /\ [][NextAccounts]_vars

\* password changes: by the principal, by a superuser and by a reset token
NextPasswords ==
    \/ login_access_token
    \/ register_user
    \/ test_token
    \/ read_user_me
    \/ update_password_me
    \/ update_user_route_password
    \/ recover_password
    \/ reset_password
    \/ get_db
    \/ Tick

SpecPasswords == Init /\ [][NextPasswords]_vars

\* password reset, from a store in which a superuser has created a second
\* principal and deactivated it
DeactivatedUsers ==
    create_user(InitialUsers, IdOrder[2], "a@x", "", "pw2", FALSE, FALSE)

InitDeactivated ==
    /\ users = DeactivatedUsers
    /\ session = DeactivatedUsers
    /\ nextId = 3
    /\ now = 0
    /\ signed = {}
    /\ resetKeyShared \in BOOLEAN
    /\ used = {}
    /\ stale = {}
    /\ txs = NoTxs
    /\ req = NoRequest
    /\ resp = NoReply
    /\ trace = <<>>

NextReset ==
    \/ login_access_token
    \/ read_user_me
    \/ update_user_route
    \/ delete_user_route
    \/ recover_password
    \/ recover_password_html_content
    \/ reset_password
    \/ get_db
    \/ Tick

SpecReset == InitDeactivated /\ [][NextReset]_vars

\* the first superuser has logged in and has asked for a password recovery
\* mail for its own address: it holds a bearer token and a reset token, and no
\* other token is signed afterwards
IssuedBearerToken == create_access_token(IdOrder[1], AccessTTL, 0)
IssuedResetToken == generate_password_reset_token(FIRST_SUPERUSER, 0)

InitIssued ==
    /\ users = InitialUsers
    /\ session = InitialUsers
    /\ nextId = 2
    /\ now = 0
    /\ signed = {IssuedBearerToken, IssuedResetToken}
    /\ resetKeyShared \in BOOLEAN
    /\ used = {}
    /\ stale = {}
    /\ txs = NoTxs
    /\ req = NoRequest
    /\ resp = NoReply
    /\ trace = <<>>

NextIssued ==
    \/ register_user
    \/ read_user_me
    \/ update_user_me
    \/ update_user_route
    \/ delete_user_me
    \/ reset_password
    \/ get_db
    \/ Tick

SpecIssued == InitIssued /\ [][NextIssued]_vars

(* ------------------------ concurrent requests -------------------------- *)
\* Two requests run side by side, each in the session get_db gave it. A
\* handler is three steps: the gate and the lookup by email (a read of the
\* committed table), the flush of its one write, and the commit or rollback
\* of get_db. The unique index on users.email makes a flush wait while
\* another session holds an uncommitted row with the same email or an
\* uncommitted update of the same row, and raise IntegrityError when the
\* email is committed under another id.
RaceOps == {"register_user", "create_user_route", "private_create_user", "update_user_me"}

RaceTokens(op) ==
    IF op \in {"create_user_route", "update_user_me"} THEN Presented ELSE {NoToken}

RaceGate(op, token) ==
    IF op = "create_user_route" THEN get_current_active_superuser(users, token, now)
    ELSE IF op = "update_user_me" THEN get_current_active_user(users, token, now)
    ELSE Outcome(200, "", NoUser, <<>>)

\* the handler up to its lookup by email: the detail it raises, or "" to go on
lookup_detail(us, op, current_user, email) ==
    IF op = "register_user" /\ get_user_by_email(us, email) # NoUser
    THEN "The user with this email already exists in the system"
    ELSE IF op = "create_user_route" /\ get_user_by_email(us, email) # NoUser
    THEN "Email already registered"
    ELSE IF /\ op = "update_user_me"
            /\ update_user_me_conflict(us, current_user, [email |-> email])
    THEN "User with this email already exists"
    ELSE ""

handler_lookup(w) ==
    /\ txs[w].pc = "idle"
    /\ \E op \in RaceOps, email \in Emails :
        \E token \in RaceTokens(op) :
            LET g == RaceGate(op, token)
                detail == IF g.status # 200 THEN g.detail
                          ELSE lookup_detail(users, op, g.user, email)
                status == IF g.status # 200 THEN g.status
                          ELSE IF detail = "" THEN 0
                          ELSE IF op = "update_user_me" THEN 409 ELSE 400
            IN txs' = [txs EXCEPT ![w] =
                          Tx(op, IF status = 0 THEN "checked" ELSE "raised", g.user, email,
                             NoUser, status, detail,
                             IF g.status # 200 THEN "gate" ELSE "lookup")]
    /\ UNCHANGED <<users, session, nextId, now, signed, resetKeyShared, used, stale,
                   req, resp, trace>>

\* the row a request writes, and the table with that row written
WriteTarget(tx) == IF tx.op = "update_user_me" THEN tx.user ELSE uuid4

Written(us, tx, id) ==
    IF tx.op = "update_user_me" THEN update_user(us, id, [email |-> tx.email])
    ELSE create_user(us, id, tx.email,
                     IF tx.op = "private_create_user" THEN "n" ELSE "", "pw2", TRUE, FALSE)

\* session.flush() of create_user and update_user
session_flush(w) ==
    LET tx == txs[w]
        id == WriteTarget(tx)
        unchanged == tx.op = "update_user_me" /\ users[id].email = tx.email
        waits == \E v \in Workers \ {w} :
                    /\ txs[v].pc = "flushed"
                    /\ txs[v].email = tx.email \/ txs[v].id = id
        ok == EmailUnique(Written(users, tx, id))
    IN /\ tx.pc = "checked"
       /\ unchanged \/ ~waits
       /\ (ok /\ tx.op # "update_user_me") => nextId <= MaxUsers + 1
       /\ txs' = [txs EXCEPT ![w] =
                     IF ok THEN Tx(tx.op, "flushed", tx.user, tx.email, id, 200, "", "none")
                     ELSE Tx(tx.op, "raised", tx.user, tx.email, NoUser,
                             500, "Internal Server Error", "flush")]
       /\ nextId' = IF ok /\ tx.op # "update_user_me" THEN nextId + 1 ELSE nextId
       /\ UNCHANGED <<users, session, now, signed, resetKeyShared, used, stale,
                      req, resp, trace>>

\* get_db after its yield, for one of the concurrent requests
get_db_close(w) ==
    LET tx == txs[w]
    IN /\ tx.pc \in {"flushed", "raised"}
       /\ users' = IF tx.pc = "flushed" THEN Written(users, tx, tx.id) ELSE users
       /\ session' = users'
       /\ txs' = [txs EXCEPT ![w] = NoTx]
       /\ UNCHANGED <<nextId, now, signed, resetKeyShared, used, stale, req, resp, trace>>

\* the first superuser has logged in
InitRace ==
    /\ users = InitialUsers
    /\ session = InitialUsers
    /\ nextId = 2
    /\ now = 0
    /\ signed = {create_access_token(IdOrder[1], AccessTTL, 0)}
    /\ resetKeyShared \in BOOLEAN
    /\ used = {}
    /\ stale = {}
    /\ txs = NoTxs
    /\ req = NoRequest
    /\ resp = NoReply
    /\ trace = <<>>

NextRace ==
    \/ \E w \in Workers : handler_lookup(w)
    \/ \E w \in Workers : session_flush(w)
    \/ \E w \in Workers : get_db_close(w)

SpecRace == InitRace /\ [][NextRace]_vars

(* ------------------------------ claims --------------------------------- *)
GateOps == {"test_token", "read_user_me", "update_user_me", "update_password_me",
            "read_user_by_id", "delete_user_me", "read_users", "create_user_route",
            "update_user_route", "delete_user_route", "recover_password_html_content"}
AdminOps == {"read_users", "create_user_route", "update_user_route",
             "delete_user_route", "recover_password_html_content"}
PrincipalOps == {"test_token", "read_user_me"}   \* the body is the resolved principal

InvalidTokenReply == Reply(403, "Could not validate credentials", NoUser, NoToken, NoUser)

Malformed(tok) == tok.form # "jwt"
BadSignature(tok) == tok.form = "jwt" /\ tok.signer # "server"
Expired(tok) == tok.form = "jwt" /\ tok.exp <= now
SubjectNotUUID(tok) == tok.form = "jwt" /\ tok.sub.tag = "text"
SubjectMissing(tok) == tok.form = "jwt" /\ tok.sub.tag = "absent"

\* a bearer token that verifies now and whose subject parses as an id
GoodBearer(tok) ==
    /\ tok.form = "jwt" /\ tok.signer = "server" /\ tok.ctx = "access"
    /\ now < tok.exp
    /\ tok.sub.tag = "uuid"

\* the request in flight presents a good bearer token of a stored principal
CallerStored == req.op \in GateOps /\ GoodBearer(req.token) /\ req.token.sub.v \in DOMAIN users
Caller == users[req.token.sub.v]

\* C1: a bearer token with a bad signature, malformed, expired, with a subject
\* that is not a UUID or with no subject gets 403 'Could not validate
\* credentials' from every gated route, the same reply in each case, and the
\* gate stops at the token check: no lookup in the user store.
C1_InvalidTokenForbidden ==
    (/\ req.op \in GateOps
     /\ \/ Malformed(req.token)
        \/ BadSignature(req.token)
        \/ Expired(req.token)
        \/ SubjectNotUUID(req.token)
        \/ SubjectMissing(req.token))
    => /\ resp = InvalidTokenReply
       /\ trace = <<"token">>
       /\ session = users

C1_Witness ==
    /\ req.op \in GateOps
    /\ req.token \in signed /\ req.token.ctx = "access" /\ req.token.exp <= now
    /\ req.token.sub.v \in DOMAIN users
    /\ resp.status = 403

\* C2: a bearer token that verifies and whose subject parses as an id of no
\* stored principal gets 404 'User not found', not the 403 of an invalid token.
C2_MissingPrincipalNotFound ==
    (/\ req.op \in GateOps
     /\ GoodBearer(req.token)
     /\ req.token.sub.v \notin DOMAIN users)
    => /\ resp = Reply(404, "User not found", NoUser, NoToken, NoUser)
       /\ resp # InvalidTokenReply
       /\ trace = <<"token", "lookup">>

\* the principal was deleted after its token was issued
C2_Witness ==
    /\ req.op \in GateOps
    /\ req.token \in signed /\ GoodBearer(req.token)
    /\ req.token.sub.v \notin DOMAIN users
    /\ resp.status = 404

\* C3: no gated route answers success to an inactive principal that presents
\* a valid, unexpired bearer token: each answers 400 'Inactive user'.
C3_InactiveRejectedEverywhere ==
    (CallerStored /\ ~Caller.is_active)
    => /\ resp.status = 400
       /\ resp.detail = "Inactive user"

RequiredChecks(op) ==
    IF op = "test_token" THEN <<"token", "lookup">>
    ELSE IF op \in AdminOps THEN <<"token", "lookup", "active", "superuser">>
    ELSE <<"token", "lookup", "active">>

IsPrefix(a, b) == Len(a) <= Len(b) /\ SubSeq(b, 1, Len(a)) = a

C5_GateOrder ==
    req.op \in GateOps
    => LET need == RequiredChecks(req.op)
           ran == \E i \in 1..Len(trace) : trace[i] = "body"
       IN /\ Len(trace) >= 1
          /\ IsPrefix(trace, Append(need, "body"))
          /\ ran => trace = Append(need, "body")
          /\ ~ran =>
                /\ resp.status # 200
                /\ resp.detail =
                     CASE trace[Len(trace)] = "token" -> "Could not validate credentials"
                       [] trace[Len(trace)] = "lookup" -> "User not found"
                       [] trace[Len(trace)] = "active" -> "Inactive user"
                       [] OTHER -> "The user doesn't have enough privileges"
          /\ (/\ req.op \in AdminOps /\ CallerStored
              /\ ~Caller.is_active /\ ~Caller.is_superuser)
             => /\ resp.status = 400
                /\ resp.detail = "Inactive user"
                /\ trace = <<"token", "lookup", "active">>

C5_Witness ==
    /\ req.op \in AdminOps /\ CallerStored
    /\ ~Caller.is_active /\ ~Caller.is_superuser
    /\ resp.status = 400
    /\ trace = <<"token", "lookup", "active">>

\* C6: authenticate returns a principal exactly when a stored principal has
\* the submitted email and the submitted password verifies against its hash,
\* and returns that principal; an empty password returns None.
Matching(email, password) ==
    {id \in DOMAIN users :
        /\ users[id].email = email
        /\ verify_password(password, users[id].hashed_password)}

C6_AuthenticateExact ==
    req.op = "login_access_token"
    => /\ resp.auth # NoUser <=> Matching(req.email, req.password) # {}
       /\ resp.auth # NoUser => resp.auth \in Matching(req.email, req.password)
       /\ req.password = "" => resp.auth = NoUser

C6_Witness ==
    /\ req.op = "login_access_token"
    /\ resp.auth \in DOMAIN users
    /\ users[resp.auth].email = req.email
    /\ ~users[resp.auth].is_superuser

\* C7: login answers 401 'Incorrect username or password' alike for an email
\* no principal has and for a stored email with a wrong password.
C7_LoginFailureUniform ==
    (/\ req.op = "login_access_token"
     /\ \/ \A id \in DOMAIN users : users[id].email # req.email
        \/ \E id \in DOMAIN users :
              /\ users[id].email = req.email
              /\ ~verify_password(req.password, users[id].hashed_password))
    => resp = Reply(401, "Incorrect username or password", NoUser, NoToken, NoUser)

C7_Witness ==
    /\ req.op = "login_access_token"
    /\ \E id \in DOMAIN users :
          /\ users[id].email = req.email
          /\ ~verify_password(req.password, users[id].hashed_password)
          /\ req.password # ""
    /\ resp.status = 401

\* C8: login signs a token whose subject is the principal's id and that expires
\* AccessTTL after the clock; while the clock is before the expiry every
\* presentation by a stored active principal answers with that principal and
\* changes no row; once the clock is past the expiry every presentation gets
\* the 403 of an invalid token.
C8_BearerRoundTrip ==
    [][/\ (req.op = "login_access_token" /\ resp.status = 200)
          => /\ resp.auth \in DOMAIN users
             /\ resp.token.ctx = "access"
             /\ resp.token.sub = StrOfUUID(resp.auth)
             /\ resp.token.exp = now + AccessTTL
             /\ resp.token \in signed
       /\ (/\ req.op \in PrincipalOps
           /\ req.token \in signed /\ req.token.ctx = "access")
          => /\ (/\ now < req.token.exp
                 /\ req.token.sub.v \in DOMAIN users
                 /\ users[req.token.sub.v].is_active)
                => /\ resp = Reply(200, "", req.token.sub.v, NoToken, NoUser)
                   /\ session = users
                   /\ users' = users
             /\ now > req.token.exp => resp = InvalidTokenReply]_vars

C8_Witness ==
    /\ req.op = "read_user_me"
    /\ req.token \in signed /\ req.token.ctx = "access"
    /\ now < req.token.exp
    /\ ~users[req.token.sub.v].is_superuser
    /\ resp.status = 200 /\ resp.user = req.token.sub.v

\* C9: a reset token is signed for the email it was asked for and expires
\* ResetTTL after the clock; before the expiry reset_password resolves it to
\* that email (never 'Invalid token', and the password it sets is that of the
\* principal with that email); past the expiry it answers 400 'Invalid token'.
C9_ResetRoundTrip ==
    /\ (req.op = "recover_password_html_content" /\ resp.status = 200)
       => /\ resp.token.ctx = "reset"
          /\ resp.token.sub = StrOfText(req.email)
          /\ resp.token.exp = now + ResetTTL
    /\ (/\ req.op = "reset_password"
        /\ req.token \in signed /\ req.token.ctx = "reset")
       => /\ now < req.token.exp
             => /\ resp.detail # "Invalid token"
                /\ resp.status = 404
                   <=> \A id \in DOMAIN users : users[id].email # req.token.sub.v
                /\ resp.status = 200
                   => /\ resp.user \in DOMAIN users
                      /\ users[resp.user].email = req.token.sub.v
                      /\ session = set_user_password(users, resp.user, req.password)
          /\ now > req.token.exp
             => /\ resp = Reply(400, "Invalid token", NoUser, NoToken, NoUser)
                /\ session = users

C9_Witness ==
    /\ req.op = "reset_password"
    /\ req.token \in signed /\ req.token.ctx = "reset"
    /\ now > req.token.exp
    /\ resp.status = 400 /\ resp.detail = "Invalid token"

\* C10: reset_password answers a bearer token with 400 'Invalid token' and
\* sets no password; a gated route answers a reset token with the 403 of an
\* invalid token and resolves no principal.
C10_PurposeIsolation ==
    [][/\ (req.op = "reset_password" /\ req.token.ctx = "access")
          => /\ resp = Reply(400, "Invalid token", NoUser, NoToken, NoUser)
             /\ session = users
             /\ users' = users
       /\ (req.op \in GateOps /\ req.token.ctx = "reset")
          => /\ resp = InvalidTokenReply
             /\ trace = <<"token">>]_vars

\* an unexpired reset token, signed under the key the bearer check accepts
C10_Witness ==
    /\ req.op \in GateOps
    /\ req.token \in signed /\ req.token.ctx = "reset" /\ now < req.token.exp
    /\ resetKeyShared
    /\ resp.status = 403

\* C11: a reset token is not consumed by use: presented to reset_password
\* before its expiry for a stored active principal it succeeds, also when it
\* has already set a password before, and each time the password becomes the
\* new password of the request; the token stays as valid as it was.
ResetTarget == get_user_by_email(users, req.token.sub.v)

C11_ResetReplay ==
    [][(/\ req.op = "reset_password"
        /\ req.token \in signed /\ req.token.ctx = "reset"
        /\ now < req.token.exp
        /\ ResetTarget # NoUser
        /\ users[ResetTarget].is_active)
       => /\ resp = Reply(200, "Password updated successfully", ResetTarget, NoToken, NoUser)
          /\ verify_password(req.password, session[ResetTarget].hashed_password)
          /\ verify_password(req.password, users'[ResetTarget].hashed_password)
          /\ verify_password_reset_token(req.token, now') = req.token.sub.v]_vars

C11_Witness ==
    /\ req.op = "reset_password"
    /\ req.token \in used
    /\ resp.status = 200
    /\ verify_password(req.password, session[resp.user].hashed_password)

\* C12: a superuser that asks to delete its own account, by delete_user_me or
\* by delete_user_route with its own id, gets 403 'Super users are not allowed
\* to delete themselves', and its row is in the store once the request is over.
SelfDelete ==
    \/ req.op = "delete_user_me"
    \/ req.op = "delete_user_route" /\ req.target = req.token.sub.v

C12_SuperuserSelfDeleteRefused ==
    [][(/\ SelfDelete
        /\ CallerStored /\ Caller.is_active /\ Caller.is_superuser)
       => /\ resp = Reply(403, "Super users are not allowed to delete themselves",
                          NoUser, NoToken, NoUser)
          /\ session = users
          /\ req.token.sub.v \in DOMAIN users'
          /\ users'[req.token.sub.v] = Caller]_vars

C12_Witness ==
    /\ req.op = "delete_user_route" /\ req.target = req.token.sub.v
    /\ CallerStored /\ Caller.is_active /\ Caller.is_superuser
    /\ Cardinality(DOMAIN users) > 1
    /\ resp.status = 403
    /\ resp.detail = "Super users are not allowed to delete themselves"

\* C13: an active principal that is not a superuser never reads, modifies or
\* deletes a principal other than itself: no response carries another
\* principal, no other row is touched by the request, update_user_route and
\* delete_user_route answer 403, and read_user_by_id answers 403 for every
\* other id, stored or not.
Me == req.token.sub.v

PrivilegeReply ==
    Reply(403, "The user doesn't have enough privileges", NoUser, NoToken, NoUser)

C13_OthersOutOfReach ==
    [][(CallerStored /\ Caller.is_active /\ ~Caller.is_superuser)
       => /\ resp.user \in {NoUser, Me}
          /\ \A id \in DOMAIN users \ {Me} :
                /\ id \in DOMAIN session /\ session[id] = users[id]
                /\ id \in DOMAIN users' /\ users'[id] = users[id]
          /\ req.op \in {"update_user_route", "delete_user_route"}
             => resp = PrivilegeReply /\ users' = users
          /\ (req.op = "read_user_by_id" /\ req.target # Me)
             => resp = PrivilegeReply /\ users' = users]_vars

\* the other id is of no stored principal
C13_Witness ==
    /\ req.op = "read_user_by_id"
    /\ CallerStored /\ Caller.is_active /\ ~Caller.is_superuser
    /\ req.target # Me /\ req.target \notin DOMAIN users
    /\ resp = PrivilegeReply

\* C14: an active principal that is not a superuser and calls
\* update_user_route with its own id is answered with success and its updated
\* profile (the full name of the body, the email as it was), not with a
\* privilege error.
C14_SelfUpdateById ==
    (/\ req.op = "update_user_route"
     /\ CallerStored /\ Caller.is_active /\ ~Caller.is_superuser
     /\ req.target = Me)
    => /\ resp.status = 200
       /\ resp.user = Me
       /\ session[Me].email = users[Me].email
       /\ "full_name" \in DOMAIN req.patch => session[Me].full_name = req.patch.full_name

\* C15: update_user_me and update_user_route answer a body whose email belongs
\* to another principal with 409 'User with this email already exists' and
\* leave every principal as it was; a body whose email is the target's own
\* current email succeeds.
BodyRan == trace # <<>> /\ trace[Len(trace)] = "body"
UpdateTarget == IF req.op = "update_user_me" THEN Me ELSE req.target
EmailOwner == get_user_by_email(users, req.patch.email)

C15_UpdateEmailCollision ==
    [][(/\ req.op \in {"update_user_me", "update_user_route"}
        /\ BodyRan
        /\ "email" \in DOMAIN req.patch
        /\ UpdateTarget \in DOMAIN users)
       => /\ (EmailOwner # NoUser /\ EmailOwner # UpdateTarget)
             => /\ resp = Reply(409, "User with this email already exists",
                                NoUser, NoToken, NoUser)
                /\ session = users
                /\ users' = users
          /\ req.patch.email = users[UpdateTarget].email
             => /\ resp = Reply(200, "", UpdateTarget, NoToken, NoUser)
                /\ session[UpdateTarget].email = req.patch.email
                /\ users' = session]_vars

C15_Witness ==
    /\ req.op = "update_user_route"
    /\ BodyRan
    /\ "email" \in DOMAIN req.patch
    /\ UpdateTarget \in DOMAIN users
    /\ EmailOwner # NoUser /\ EmailOwner # UpdateTarget
    /\ resp.status = 409

\* C16: every operation that creates a principal answers a body whose email a
\* stored principal already has with the duplicate-email error, and the store
\* stays as it was.
CreateOps == {"register_user", "create_user_route", "private_create_user"}

DuplicateEmailDetails ==
    {"The user with this email already exists in the system",
     "Email already registered",
     "User with this email already exists"}

C16_CreateDuplicateEmail ==
    (/\ req.op \in CreateOps
     /\ BodyRan
     /\ get_user_by_email(users, req.email) # NoUser)
    => /\ resp.status \in {400, 409}
       /\ resp.detail \in DuplicateEmailDetails
       /\ session = users

C18_RecoveryUniform ==
    [][/\ (Idle /\ req'.op = "recover_password")
          => LET exists == \E id \in DOMAIN users : users[id].email = req'.email
             IN /\ resp' = Reply(200, "Password recovery email sent",
                                 NoUser, NoToken, NoUser)
                /\ exists
                   => /\ trace' = <<"body", "mail">>
                      /\ \E tok \in signed' :
                            /\ tok.ctx = "reset" /\ tok.sub = StrOfText(req'.email)
                            /\ signed' = signed \cup {tok}
                /\ ~exists => (trace' = <<"body">> /\ signed' = signed)
                /\ users' = users /\ session' = users
       /\ req.op = "recover_password" => users' = users]_vars

\* the email of a principal that has been deleted
C18_Witness ==
    /\ req.op = "recover_password"
    /\ \A id \in DOMAIN users : users[id].email # req.email
    /\ nextId > 2
    /\ resp = Reply(200, "Password recovery email sent", NoUser, NoToken, NoUser)
    /\ trace = <<"body">>

\* C19: reset_password sets a password only when the token resolves to an
\* email, a principal has that email and the principal is active; a token that
\* does not resolve gets 400 'Invalid token', a missing principal 404, an
\* inactive principal 400 'Inactive user', and after each of these errors
\* every stored password hash is what it was.
GoodReset(tok) ==
    /\ tok.form = "jwt" /\ tok.signer = "server" /\ tok.ctx = "reset"
    /\ now < tok.exp
    /\ tok.sub.tag = "text"

C20_UpdatePasswordGuards ==
    [][(req.op = "update_password_me" /\ BodyRan)
       => LET current == req.patch.current_password
              new == req.patch.new_password
              hash == users[Me].hashed_password
          IN /\ ~verify_password(current, hash)
                => /\ resp = Reply(400, "Incorrect password", NoUser, NoToken, NoUser)
                   /\ session = users /\ users' = users
             /\ (verify_password(current, hash) /\ current = new)
                => /\ resp = Reply(400, "New password cannot be the same as the current one",
                                   NoUser, NoToken, NoUser)
                   /\ session = users /\ users' = users
             /\ (verify_password(current, hash) /\ current # new)
                => /\ resp = Reply(200, "Password updated successfully",
                                   NoUser, NoToken, NoUser)
                   /\ verify_password(new, users'[Me].hashed_password)
                   /\ ~verify_password(current, users'[Me].hashed_password)
                   /\ users' = set_user_password(users, Me, new)
             /\ users'[Me].hashed_password # hash
                => (verify_password(current, hash) /\ current # new)]_vars

C20_Witness ==
    /\ req.op = "update_password_me" /\ BodyRan
    /\ resp.status = 200
    /\ verify_password(req.patch.current_password, users[Me].hashed_password)
    /\ verify_password(req.patch.new_password, session[Me].hashed_password)
    /\ ~verify_password(req.patch.current_password, session[Me].hashed_password)

\* C21: login issues a bearer token only after authenticate has returned a
\* principal and that principal is active, and the subject of the token is the
\* id of that principal; correct credentials of an inactive principal get 400
\* 'Inactive user' and no token is signed.
C21_LoginIssuesToken ==
    [][(Idle /\ req'.op = "login_access_token")
       => LET match == Matching(req'.email, req'.password)
          IN /\ resp'.token # NoToken
                => /\ resp'.status = 200
                   /\ resp'.auth \in match
                   /\ users[resp'.auth].is_active
                   /\ resp'.token.ctx = "access"
                   /\ resp'.token.sub = StrOfUUID(resp'.auth)
                   /\ signed' = signed \cup {resp'.token}
             /\ resp'.token = NoToken => (resp'.status # 200 /\ signed' = signed)
             /\ (\E id \in match : ~users[id].is_active)
                => /\ resp'.status = 400
                   /\ resp'.detail = "Inactive user"
                   /\ resp'.token = NoToken
                   /\ signed' = signed]_vars

\* the right password of a principal that has been deactivated
C21_Witness ==
    /\ req.op = "login_access_token"
    /\ \E id \in Matching(req.email, req.password) : ~users[id].is_active
    /\ resp.status = 400 /\ resp.detail = "Inactive user"
    /\ resp.token = NoToken

\* C22: update_user applies only the fields present in the patch and leaves
\* every other field of the principal, and every other principal, unchanged; a
\* password of the patch is stored only as its hash in hashed_password, the
\* plaintext in no stored field, and the new password verifies against the
\* stored hash.
C22_UpdateFrame ==
    (/\ req.op \in {"update_user_me", "update_user_route"}
     /\ resp.status = 200)
    => LET F == DOMAIN req.patch
           old == users[UpdateTarget]
           new == session[UpdateTarget]
       IN /\ DOMAIN session = DOMAIN users
          /\ \A id \in DOMAIN users \ {UpdateTarget} : session[id] = users[id]
          /\ new.email = IF "email" \in F THEN req.patch.email ELSE old.email
          /\ new.full_name = IF "full_name" \in F THEN req.patch.full_name
                                                  ELSE old.full_name
          /\ new.is_active = IF "is_active" \in F THEN req.patch.is_active
                                                  ELSE old.is_active
          /\ new.is_superuser = IF "is_superuser" \in F THEN req.patch.is_superuser
                                                        ELSE old.is_superuser
          /\ "password" \notin F => new.hashed_password = old.hashed_password
          /\ "password" \in F
             => /\ new.hashed_password.alg = "bcrypt"
                /\ verify_password(req.patch.password, new.hashed_password)
                /\ new.email # req.patch.password
                /\ new.full_name # req.patch.password

\* a superuser sets the password of a principal whose full name is set
C22_Witness ==
    /\ req.op = "update_user_route"
    /\ resp.status = 200
    /\ "password" \in DOMAIN req.patch
    /\ users[req.target].full_name # ""
    /\ ~verify_password(req.patch.password, users[req.target].hashed_password)
    /\ verify_password(req.patch.password, session[req.target].hashed_password)

\* C23: each request runs in one store session that is committed exactly once
\* when the request completes without error and rolled back when an exception
\* is raised: the committed store does not change while the handler runs, a
\* request that ends in an error leaves it exactly as it was before the
\* request, and the mutations of a successful request become visible together,
\* in the one step that ends the request.
C23_RequestTransaction ==
    [][/\ Idle => users' = users
       /\ ~Idle
          => /\ req'.op = "none"
             /\ resp.status = 200 => users' = session
             /\ resp.status # 200 => users' = users
             /\ session' = users']_vars

\* the insert of the private create raised IntegrityError at its flush
C23_Witness ==
    /\ req.op = "private_create_user"
    /\ resp.status = 500
    /\ session = users

\* C24: under every interleaving of concurrent signup, admin create, private
\* create and update-email requests, no committed store holds two principals
\* with the same email, so a lookup by email finds at most one row.
C24_EmailUniqueUnderRaces ==
    /\ \A i, j \in DOMAIN users : users[i].email = users[j].email => i = j
    /\ \A e \in Emails : Cardinality({id \in DOMAIN users : users[id].email = e}) <= 1

\* a request passed its lookup and found the email committed at its flush
C24_Witness ==
    \E w \in Workers :
        /\ txs[w].op \in {"register_user", "create_user_route", "update_user_me"}
        /\ txs[w].pc = "raised" /\ txs[w].at = "flush"
        /\ \E id \in DOMAIN users : users[id].email = txs[w].email /\ id # txs[w].user

\* C25: when two concurrent requests take the same email and both pass the
\* lookup before either writes, the request that loses is answered with the
\* duplicate-email error a sequential duplicate gets, not with an unhandled
\* failure.
C25_RaceLoserDuplicateEmail ==
    \A w \in Workers :
        (/\ txs[w].op \in {"register_user", "update_user_me"}
         /\ txs[w].pc = "raised" /\ txs[w].at = "flush")
        => /\ txs[w].status \in {400, 409}
           /\ txs[w].detail \in DuplicateEmailDetails

\* C26: the id of a principal never changes under update, password-change and
\* reset operations (these requests add and remove no id), the id of a new
\* principal is one that no principal has had before, also after deletions,
\* and a bearer token resolves to the id it was issued for or to nothing.
C26_IdStable ==
    [][/\ req.op \in {"update_user_me", "update_user_route", "update_password_me",
                      "reset_password"}
          => /\ DOMAIN session = DOMAIN users
             /\ DOMAIN users' = DOMAIN users
       /\ Idle => \A id \in DOMAIN session' \ DOMAIN users :
                      \A i \in 1..(nextId - 1) : IdOrder[i] # id
       /\ nextId' >= nextId
       /\ (req.op \in PrincipalOps /\ req.token \in signed /\ resp.status = 200)
          => /\ resp.user = Me
             /\ Me \in DOMAIN users]_vars

\* a principal is created after the first one has been deleted
C26_Witness ==
    /\ req.op = "register_user"
    /\ resp.status = 200
    /\ IdOrder[1] \notin DOMAIN users
    /\ resp.user \in DOMAIN session /\ resp.user # IdOrder[1]

\* C27: a reset token issued for an email while the email belonged to one
\* principal never sets the password of another principal: the token issued
\* for the first superuser's address, presented after that address has moved
\* to another principal, sets no password but the first superuser's.
C27_ResetTokenBoundToPrincipal ==
    (/\ req.op = "reset_password"
     /\ req.token = IssuedResetToken
     /\ resp.status = 200)
    => /\ resp.user = IdOrder[1]
       /\ \A id \in DOMAIN users \ {IdOrder[1]} : session[id] = users[id]

\* C29: a superuser cannot bring about the deletion of its own account by
\* requests authenticated as itself: whatever it sends, update_user_route on
\* its own id followed by delete_user_me included, its row stays in the store.
C29_SuperuserKeepsAccount ==
    IdOrder[1] \in DOMAIN users

\* C28: no request that is unauthenticated or carries the token of a principal
\* that is not a superuser produces a principal with is_superuser true:
\* signup, private create, update-me and the password operations never set
\* the flag, and a row gets it only from a request of a stored, active
\* superuser.
Promoted ==
    {id \in DOMAIN session :
        /\ session[id].is_superuser
        /\ id \notin DOMAIN users \/ ~users[id].is_superuser}

C28_NoPrivilegeEscalation ==
    /\ Promoted # {}
       => /\ req.op \in AdminOps
          /\ CallerStored /\ Caller.is_active /\ Caller.is_superuser
    /\ req.op \in {"register_user", "private_create_user", "update_user_me",
                   "update_password_me", "login_access_token"}
       => Promoted = {}

\* a principal that is not a superuser updates its own profile
C28_Witness ==
    /\ req.op = "update_user_me"
    /\ CallerStored /\ Caller.is_active /\ ~Caller.is_superuser
    /\ resp.status = 200
    /\ session # users

\* C30: every stored principal has a non-null email and full name, and a patch
\* that names a field with an explicit null is treated like a patch that
\* omits the field: it writes nothing and the update succeeds.
C30_NullPatchIgnored ==
    /\ \A id \in DOMAIN users : users[id].email # NoEmail /\ users[id].full_name # NoName
    /\ (/\ req.op = "update_user_me"
        /\ BodyRan
        /\ \E f \in DOMAIN req.patch : req.patch[f] = "none")
       => /\ resp = Reply(200, "", Me, NoToken, NoUser)
          /\ session = users

====
